---- MODULE Spec2Model ----
(***************************************************************************)
(* Passport OCR pipeline: src/app.py (process start-up and the single      *)
(* upload route) and src/OCR_pass.py (PassportOCRExtractor).               *)
(*                                                                         *)
(* Four specifications share the module's variables:                       *)
(*   Spec         process start-up, then concurrently handled requests     *)
(*   SpecExtract  one call of PassportOCRExtractor.extract_text            *)
(*   SpecFence    post-processing of one LLM completion (app.py 122-125)   *)
(*   SpecScore    the accuracy metrics of one parsed object (130-133)      *)
(* Python strings whose characters matter are sequences of one-character   *)
(* strings.                                                                *)
(***************************************************************************)
EXTENDS Integers, Sequences, FiniteSets, TLC

VARIABLES
    proc,      \* position of the module-level code of app.py
    environ,   \* os.environ.get("GOOGLE_API_KEY"): None, or the key and where it came from
    dotenv,    \* the GOOGLE_API_KEY of the .env file that load_dotenv reads, or None
    handles,   \* the process-wide objects constructed so far (ocr_extractor, model)
    req,       \* req[r]: the state of upload_and_extract for request r
    files,     \* the files under /tmp: path -> [owner, decodable]
    issued,    \* how many identifiers uuid.uuid4() has handed out
    ocr,       \* SpecExtract: one call of extract_text
    llm,       \* SpecFence: one completion being post-processed
    acc        \* SpecScore: one parsed object being scored

vars == <<proc, environ, dotenv, handles, req, files, issued, ocr, llm, acc>>

----------------------------------------------------------------------------
(* Bounds *)

\* number of requests the server is given
MaxReq == 2
\* largest number of top-level keys of an object scored under SpecScore
MaxFields == 20
\* largest number of recognised fragments one predict call returns
MaxTexts == 4
\* largest number of result pages one predict call returns
MaxPages == 2
\* largest number of chunks a completion is made of under SpecFence
MaxChunks == 5

Requests == 1..MaxReq

None == "None"
NoPath == <<>>

----------------------------------------------------------------------------
(* Sequences of characters *)

RECURSIVE Concat(_)
\* the concatenation of a sequence of sequences
Concat(ss) == IF ss = <<>> THEN <<>> ELSE Head(ss) \o Concat(Tail(ss))

\* all sequences over S of length at most n
SeqUpTo(S, n) == UNION {[1..k -> S] : k \in 0..n}

\* characters str.strip() removes
Whitespace == {" ", "\n"}

RECURSIVE LStrip(_)
LStrip(s) == IF s # <<>> /\ Head(s) \in Whitespace THEN LStrip(Tail(s)) ELSE s

RECURSIVE RStrip(_)
RStrip(s) ==
    IF s # <<>> /\ s[Len(s)] \in Whitespace THEN RStrip(SubSeq(s, 1, Len(s) - 1)) ELSE s

\* str.strip()
Strip(s) == RStrip(LStrip(s))

\* str.startswith(p)
StartsWith(s, p) == Len(s) >= Len(p) /\ SubSeq(s, 1, Len(p)) = p

----------------------------------------------------------------------------
(* Scoring: app.py 130-133 *)

\* len(passport_data)
total_fields(data) == Len(data)

\* sum(1 for v in passport_data.values() if v is None)
null_fields(data) == Cardinality({i \in 1..Len(data) : data[i] = None})

\* total_fields - null_fields
extracted_fields(data) == total_fields(data) - null_fields(data)

\* round(x, 2) of the quotient n / d, in hundredths: the nearest integer to
\* 100 * n / d, a tie going to the even one
Round2(n, d) ==
    LET q == (100 * n) \div d
        twice == 2 * ((100 * n) % d)
    IN  IF twice < d THEN q
        ELSE IF twice > d THEN q + 1
        ELSE IF q % 2 = 0 THEN q ELSE q + 1

\* lines 130-133 on a parsed object: the four metrics (accuracy_percent in
\* hundredths), or the ZeroDivisionError of line 133
ScoreOutcome(data) ==
    IF total_fields(data) = 0
    THEN [error |-> "ZeroDivisionError", metrics |-> <<>>]
    ELSE [error |-> None,
          metrics |-> <<total_fields(data), null_fields(data), extracted_fields(data),
                        Round2(extracted_fields(data) * 100, total_fields(data))>>]

\* the JSON objects of at most n keys, as the sequence of their values with
\* the null values first (the scoring reads the values' number and nullness only)
Objects(n) == {[i \in 1..t |-> IF i <= k THEN None ELSE "v"] : <<t, k>> \in
                  {p \in (0..n) \X (0..n) : p[2] <= p[1]}}

----------------------------------------------------------------------------
(* Process start-up: app.py 14-31 *)

\* os.getenv("GOOGLE_API_KEY"): the variable's value, None when it is not set
getenv(env) == env

\* a mutant of SetItemOutcome: storing None in os.environ is accepted
SetItemOutcomeLax(value) == "ok"

\* os.environ[...] = value (line 15): os.environ accepts only str
SetItemOutcome(value) == IF value = None THEN "TypeError" ELSE "ok"

\* line 14: load_dotenv() sets a variable of the .env file that os.environ
\* lacks, and overrides none
LoadDotenv ==
    /\ proc = "load_dotenv"
    /\ environ' = IF environ = None THEN dotenv ELSE environ
    /\ proc' = "set_key"
    /\ UNCHANGED <<dotenv, handles, req, files, issued, ocr, llm, acc>>

\* line 15: os.environ["GOOGLE_API_KEY"] = os.getenv("GOOGLE_API_KEY")
SetKey ==
    /\ proc = "set_key"
    /\ proc' = IF SetItemOutcome(getenv(environ)) = "ok" THEN "init_ocr" ELSE "crashed"
    /\ UNCHANGED <<environ, dotenv, handles, req, files, issued, ocr, llm, acc>>

\* line 25: ocr_extractor = PassportOCRExtractor()
InitOcr ==
    /\ proc = "init_ocr"
    /\ handles' = handles \cup {"ocr_extractor"}
    /\ proc' = "init_model"
    /\ UNCHANGED <<environ, dotenv, req, files, issued, ocr, llm, acc>>

\* lines 27-31: model = ChatGoogleGenerativeAI(...), then app.run (line 159)
InitModel ==
    /\ proc = "init_model"
    /\ handles' = handles \cup {"model"}
    /\ proc' = "serving"
    /\ UNCHANGED <<environ, dotenv, req, files, issued, ocr, llm, acc>>

----------------------------------------------------------------------------
(* The route "/": app.py 69-153 *)

Filenames == {"p.jpg"}

\* request.files.get("file"): no such field, a field with no file chosen
\* (an empty filename), or an upload that does or does not decode as an image
NoUpload == [present |-> FALSE, filename |-> "", decodable |-> FALSE]
Uploads ==
    {NoUpload, [present |-> TRUE, filename |-> "", decodable |-> FALSE]}
        \cup [present : {TRUE}, filename : Filenames, decodable : BOOLEAN]

\* a mutant of FileMissing: only an absent field counts as no upload
FileMissingOnlyAbsent(file) == ~file.present

\* line 75, `not file`: the field is absent, or its FileStorage has no filename
FileMissing(file) == ~file.present \/ file.filename = ""

\* uuid.uuid4(): an identifier no earlier call returned
uuid4 == issued + 1

\* a mutant of TempPath: the path is the upload's filename alone
TempPathNoUuid(uuid, filename) == <<0, filename>>

\* line 78: f"/tmp/{uuid.uuid4()}_{file.filename}"
TempPath(uuid, filename) == <<uuid, filename>>

\* what the LLM returns to a request: text that is not JSON, JSON that is
\* not an object, or an object: {}, {"k": null} or {"k": "v"}
Replies ==
    {[kind |-> "notjson", values |-> <<>>], [kind |-> "array", values |-> <<>>]}
        \cup {[kind |-> "object", values |-> o] : o \in {<<>>, <<None>>, <<"v">>}}
NoReply == [kind |-> None, values |-> <<>>]

Sections == {"extracted_text", "passport_data", "metrics"}

Idle == [pc |-> "idle", method |-> None, file |-> NoUpload, temp_path |-> NoPath,
         text |-> FALSE, reply |-> NoReply, metrics |-> <<>>, rendered |-> {},
         error |-> None, status |-> 0, body |-> {}, log |-> <<>>]

Put(f, p, v) == [q \in DOMAIN f \cup {p} |-> IF q = p THEN v ELSE f[q]]
Remove(f, p) == [q \in DOMAIN f \ {p} |-> f[q]]

\* a mutant of load_image: the existence check of line 43 is missing
load_image_unchecked(exists, decodable) ==
    IF ~exists \/ ~decodable THEN "ValueError" ELSE "ok"

\* _load_image, OCR_pass.py 36-53: cv2.imread returns None for a file it
\* cannot decode
load_image(exists, decodable) ==
    IF ~exists THEN "FileNotFoundError"
    ELSE IF ~decodable THEN "ValueError"
    ELSE "ok"

\* a mutant of NextStage: the LLM is asked before the OCR engine has run
NextStageSwapped(stage) ==
    CASE stage = "load" -> "invoke"
      [] stage = "invoke" -> "predict"
      [] stage = "predict" -> "parse"
      [] stage = "parse" -> "score"
      [] stage = "score" -> "render"
      [] stage = "render" -> "finally"

\* the statement order of the try block, lines 83-147
NextStage(stage) ==
    CASE stage = "load" -> "predict"
      [] stage = "predict" -> "invoke"
      [] stage = "invoke" -> "parse"
      [] stage = "parse" -> "score"
      [] stage = "score" -> "render"
      [] stage = "render" -> "finally"

\* the request moves on from a stage of the try block: to the next statement,
\* or, when the stage raised, to the finally clause with the exception pending
Advance(r, e, changes) ==
    req' = [req EXCEPT ![r] =
              [changes EXCEPT !.pc = IF e = None THEN NextStage(req[r].pc) ELSE "finally",
                              !.error = e,
                              !.log = Append(req[r].log, req[r].pc)]]

\* lines 72-78: a GET renders the form; a POST with no file is answered 400;
\* any other POST computes its temporary path
Begin(r) ==
    /\ proc = "serving"
    /\ req[r].pc = "idle"
    /\ \E method \in {"GET", "POST"}, file \in Uploads :
        \/ /\ method = "GET"
           /\ file = NoUpload
           /\ req' = [req EXCEPT ![r] = [Idle EXCEPT !.pc = "done", !.method = method,
                                            !.status = 200, !.body = {"form"}]]
           /\ UNCHANGED issued
        \/ /\ method = "POST"
           /\ FileMissing(file)
           /\ req' = [req EXCEPT ![r] = [Idle EXCEPT !.pc = "done", !.method = method,
                                            !.file = file, !.status = 400,
                                            !.body = {"No file uploaded"}]]
           /\ UNCHANGED issued
        \/ /\ method = "POST"
           /\ ~FileMissing(file)
           /\ req' = [req EXCEPT ![r] = [Idle EXCEPT !.pc = "save", !.method = method,
                                            !.file = file,
                                            !.temp_path = TempPath(uuid4, file.filename)]]
           /\ issued' = uuid4
    /\ UNCHANGED <<proc, environ, dotenv, handles, files, ocr, llm, acc>>

\* line 79, file.save(temp_path), outside the try block: the upload is
\* written, or open() fails, or the copy fails after open() created the file
Save(r) ==
    /\ req[r].pc = "save"
    /\ LET me == req[r]
           leave == [me EXCEPT !.pc = "done", !.error = "OSError", !.status = 500,
                               !.log = Append(me.log, "save")]
       IN  \/ /\ files' = Put(files, me.temp_path,
                              [owner |-> r, decodable |-> me.file.decodable])
              /\ req' = [req EXCEPT ![r] = [me EXCEPT !.pc = "load",
                                                      !.log = Append(me.log, "save")]]
           \/ /\ req' = [req EXCEPT ![r] = leave]
              /\ UNCHANGED files
           \/ /\ files' = Put(files, me.temp_path, [owner |-> r, decodable |-> FALSE])
              /\ req' = [req EXCEPT ![r] = leave]
    /\ UNCHANGED <<proc, environ, dotenv, handles, issued, ocr, llm, acc>>

\* line 83, extract_text up to the engine call (OCR_pass.py 74-77)
LoadImage(r) ==
    /\ req[r].pc = "load"
    /\ LET p == req[r].temp_path
           exists == p \in DOMAIN files
           outcome == load_image(exists, exists /\ files[p].decodable)
       IN  Advance(r, IF outcome = "ok" THEN None ELSE outcome, req[r])
    /\ UNCHANGED <<proc, environ, dotenv, handles, files, issued, ocr, llm, acc>>

\* line 83, extract_text from the engine call on (OCR_pass.py 80-94): the
\* engine returns and the text is collected, or the engine raises
Predict(r) ==
    /\ req[r].pc = "predict"
    /\ \/ Advance(r, None, [req[r] EXCEPT !.text = TRUE])
       \/ Advance(r, "OcrEngineError", req[r])
    /\ UNCHANGED <<proc, environ, dotenv, handles, files, issued, ocr, llm, acc>>

\* line 121, model.invoke(prompt): a completion, or the call raises
Invoke(r) ==
    /\ req[r].pc = "invoke"
    /\ \/ \E reply \in Replies : Advance(r, None, [req[r] EXCEPT !.reply = reply])
       \/ Advance(r, "LlmError", req[r])
    /\ UNCHANGED <<proc, environ, dotenv, handles, files, issued, ocr, llm, acc>>

\* lines 122-127: post-processing and json.loads
Parse(r) ==
    /\ req[r].pc = "parse"
    /\ Advance(r, IF req[r].reply.kind = "notjson" THEN "JSONDecodeError" ELSE None,
               req[r])
    /\ UNCHANGED <<proc, environ, dotenv, handles, files, issued, ocr, llm, acc>>

\* lines 130-133: the metrics; .values() exists on an object only
Score(r) ==
    /\ req[r].pc = "score"
    /\ IF req[r].reply.kind # "object"
       THEN Advance(r, "AttributeError", req[r])
       ELSE LET s == ScoreOutcome(req[r].reply.values)
            IN  Advance(r, s.error, [req[r] EXCEPT !.metrics = s.metrics])
    /\ UNCHANGED <<proc, environ, dotenv, handles, files, issued, ocr, llm, acc>>

\* lines 135-147: the page with its three result sections
Render(r) ==
    /\ req[r].pc = "render"
    /\ Advance(r, None, [req[r] EXCEPT !.rendered = Sections])
    /\ UNCHANGED <<proc, environ, dotenv, handles, issued, files, ocr, llm, acc>>

\* what the client gets once the finally clause has run: the rendered page,
\* or the server error of the exception that propagates
Response(error, rendered) ==
    IF error = None THEN [status |-> 200, body |-> rendered]
    ELSE [status |-> 500, body |-> {}]

\* lines 149-151: os.remove(temp_path) if it exists, then the return or the
\* pending exception; the handler's locals end with the call, the request keeps
\* its input, what it was answered and the log of the stages it ran
Finally(r) ==
    /\ req[r].pc = "finally"
    /\ files' = IF req[r].temp_path \in DOMAIN files
                THEN Remove(files, req[r].temp_path) ELSE files
    /\ LET me == req[r]
           resp == Response(me.error, me.rendered)
       IN  req' = [req EXCEPT ![r] = [Idle EXCEPT !.pc = "done", !.method = me.method,
                                                  !.file = me.file,
                                                  !.temp_path = me.temp_path,
                                                  !.error = me.error,
                                                  !.status = resp.status,
                                                  !.body = resp.body,
                                                  !.log = Append(me.log, "delete")]]
    /\ UNCHANGED <<proc, environ, dotenv, handles, issued, ocr, llm, acc>>

upload_and_extract(r) ==
    \/ Begin(r)
    \/ Save(r)
    \/ LoadImage(r)
    \/ Predict(r)
    \/ Invoke(r)
    \/ Parse(r)
    \/ Score(r)
    \/ Render(r)
    \/ Finally(r)

\* values of the variables a specification does not use
OcrIdle == [pc |-> "off"]
LlmIdle == [pc |-> "off"]
AccIdle == [pc |-> "off"]

Init ==
    /\ proc = "load_dotenv"
    /\ environ \in {None, "key of the environment"}
    /\ dotenv \in {None, "key of .env"}
    /\ handles = {}
    /\ req = [r \in Requests |-> Idle]
    /\ files = <<>>
    /\ issued = 0
    /\ ocr = OcrIdle
    /\ llm = LlmIdle
    /\ acc = AccIdle

Next ==
    \/ LoadDotenv
    \/ SetKey
    \/ InitOcr
    \/ InitModel
    \/ \E r \in Requests : upload_and_extract(r)

Spec == Init /\ [][Next]_vars

----------------------------------------------------------------------------
(* PassportOCRExtractor.extract_text: OCR_pass.py 67-94 *)

\* the recognised strings the engine may return
Frags == {<<>>, <<" ">>, <<"A">>, <<"B", " ", " ">>, <<"C">>}

\* the pages made of the fragments of flat, cut after the positions cuts
PagesOf(flat, cuts) ==
    [i \in 1..(Len(cuts) + 1) |->
        [rec_texts |-> SubSeq(flat,
                              (IF i = 1 THEN 0 ELSE cuts[i - 1]) + 1,
                              IF i > Len(cuts) THEN Len(flat) ELSE cuts[i])]]

\* what predict may return: no page, or up to MaxPages pages holding up to
\* MaxTexts fragments between them
Results ==
    {<<>>} \cup
    {PagesOf(flat, cuts) :
        <<flat, cuts>> \in
            {fc \in SeqUpTo(Frags, MaxTexts) \X SeqUpTo(0..MaxTexts, MaxPages - 1) :
                /\ \A i \in 1..Len(fc[2]) : fc[2][i] <= Len(fc[1])
                /\ \A i \in 1..(Len(fc[2]) - 1) : fc[2][i] <= fc[2][i + 1]}}

\* _preprocess_for_ocr, lines 55-65, on the number of dimensions of the image
preprocess_for_ocr(ndim) == IF ndim = 2 THEN 3 ELSE ndim

\* a mutant of Keep: only the empty string is ignored
KeepNonEmpty(text) == text # <<>>

\* line 88, `if text.strip()`
Keep(text) == Strip(text) # <<>>

RECURSIVE CollectPage(_, _)
\* lines 87-89: the inner loop over one page's rec_texts
CollectPage(texts, extracted_texts) ==
    IF texts = <<>> THEN extracted_texts
    ELSE CollectPage(Tail(texts),
                     IF Keep(Head(texts)) THEN Append(extracted_texts, Head(texts))
                     ELSE extracted_texts)

RECURSIVE CollectPages(_, _)
\* lines 85-89: the outer loop over the result pages
CollectPages(results, extracted_texts) ==
    IF results = <<>> THEN extracted_texts
    ELSE CollectPages(Tail(results), CollectPage(Head(results).rec_texts, extracted_texts))

RECURSIVE Join(_, _)
\* sep.join(xs)
Join(sep, xs) ==
    IF xs = <<>> THEN <<>>
    ELSE IF Len(xs) = 1 THEN xs[1]
    ELSE xs[1] \o sep \o Join(sep, Tail(xs))

\* lines 82-94
full_text(results) == Join(<<" ">>, CollectPages(results, <<>>))

\* lines 74 and 36-53: the path is missing, holds no image, or holds one;
\* cv2.imread returns a 3-channel array
XLoad ==
    /\ ocr.pc = "load"
    /\ LET outcome == load_image(ocr.path # "missing", ocr.path = "image")
       IN  ocr' = IF outcome = "ok"
                  THEN [ocr EXCEPT !.pc = "preprocess", !.ndim = 3]
                  ELSE [ocr EXCEPT !.pc = "raised", !.error = outcome]
    /\ UNCHANGED <<proc, environ, dotenv, handles, req, files, issued, llm, acc>>

\* line 77
XPreprocess ==
    /\ ocr.pc = "preprocess"
    /\ ocr' = [ocr EXCEPT !.pc = "predict", !.ndim = preprocess_for_ocr(ocr.ndim)]
    /\ UNCHANGED <<proc, environ, dotenv, handles, req, files, issued, llm, acc>>

\* line 80: the engine returns its pages, or raises
XPredict ==
    /\ ocr.pc = "predict"
    /\ \/ \E results \in Results :
            ocr' = [ocr EXCEPT !.pc = "collect", !.results = results,
                               !.predict_calls = ocr.predict_calls + 1]
       \/ ocr' = [ocr EXCEPT !.pc = "raised", !.error = "OcrEngineError",
                             !.predict_calls = ocr.predict_calls + 1]
    /\ UNCHANGED <<proc, environ, dotenv, handles, req, files, issued, llm, acc>>

\* lines 82-94
XCollect ==
    /\ ocr.pc = "collect"
    /\ ocr' = [ocr EXCEPT !.pc = "returned", !.full_text = full_text(ocr.results)]
    /\ UNCHANGED <<proc, environ, dotenv, handles, req, files, issued, llm, acc>>

InitExtract ==
    /\ proc = "off"
    /\ environ = None
    /\ dotenv = None
    /\ handles = {"ocr_extractor"}
    /\ req = [r \in Requests |-> Idle]
    /\ files = <<>>
    /\ issued = 0
    /\ \E path \in {"missing", "corrupt", "image"} :
          ocr = [pc |-> "load", path |-> path, ndim |-> 0, results |-> <<>>,
                 predict_calls |-> 0, full_text |-> <<>>, error |-> None]
    /\ llm = LlmIdle
    /\ acc = AccIdle

extract_text == XLoad \/ XPreprocess \/ XPredict \/ XCollect

SpecExtract == InitExtract /\ [][extract_text]_vars

----------------------------------------------------------------------------
(* Post-processing of the completion: app.py 122-125 *)

\* the backquote character, written "'" (a string cannot hold a backquote)
Backquote == "'"

\* the fence marker, three backquotes
Fence == <<Backquote, Backquote, Backquote>>
JsonTag == <<"j", "s", "o", "n">>

\* what completions are made of: fence markers, the language tag, JSON text
\* and white space
Chunks == {Fence, JsonTag, <<"1">>, <<"\n">>}

\* result.content: up to MaxChunks chunks
Completions == {Concat(cs) : cs \in SeqUpTo(Chunks, MaxChunks)}

RECURSIVE Replace(_, _, _)
\* str.replace(old, new): every occurrence, left to right, none overlapping
Replace(s, old, new) ==
    IF Len(s) < Len(old) THEN s
    ELSE IF StartsWith(s, old)
         THEN new \o Replace(SubSeq(s, Len(old) + 1, Len(s)), old, new)
         ELSE <<Head(s)>> \o Replace(Tail(s), old, new)

\* lines 122-125: what reaches json.loads
raw_output(content) ==
    LET stripped == Strip(content)
    IN  IF StartsWith(stripped, Fence)
        THEN Strip(Replace(Replace(stripped, Fence \o JsonTag, <<>>), Fence, <<>>))
        ELSE stripped

PostProcess ==
    /\ llm.pc = "completed"
    /\ llm' = [llm EXCEPT !.pc = "loads", !.raw_output = raw_output(llm.content)]
    /\ UNCHANGED <<proc, environ, dotenv, handles, req, files, issued, ocr, acc>>

InitFence ==
    /\ proc = "off"
    /\ environ = None
    /\ dotenv = None
    /\ handles = {"model"}
    /\ req = [r \in Requests |-> Idle]
    /\ files = <<>>
    /\ issued = 0
    /\ ocr = OcrIdle
    /\ \E content \in Completions :
          llm = [pc |-> "completed", content |-> content, raw_output |-> <<>>]
    /\ acc = AccIdle

SpecFence == InitFence /\ [][PostProcess]_vars

----------------------------------------------------------------------------
(* Scoring of one parsed object: app.py 130-133 *)

ScoreObject ==
    /\ acc.pc = "parsed"
    /\ LET s == ScoreOutcome(acc.passport_data)
       IN  acc' = [acc EXCEPT !.pc = "scored", !.metrics = s.metrics, !.error = s.error]
    /\ UNCHANGED <<proc, environ, dotenv, handles, req, files, issued, ocr, llm>>

InitScore ==
    /\ proc = "off"
    /\ environ = None
    /\ dotenv = None
    /\ handles = {}
    /\ req = [r \in Requests |-> Idle]
    /\ files = <<>>
    /\ issued = 0
    /\ ocr = OcrIdle
    /\ llm = LlmIdle
    /\ \E data \in Objects(MaxFields) :
          acc = [pc |-> "parsed", passport_data |-> data, metrics |-> <<>>,
                 error |-> None]

SpecScore == InitScore /\ [][ScoreObject]_vars

----------------------------------------------------------------------------
(* Claims *)

Answered(r) == req[r].pc = "done"
InFlight(r) == req[r].pc \notin {"idle", "done"}
NoFileSupplied(r) == ~req[r].file.present \/ req[r].file.filename = ""
Has(log, stage) == \E i \in 1..Len(log) : log[i] = stage

\* C1: once a POST request that supplied a file has completed, whichever
\* stage failed, its temporary upload file does not exist on disk.
C1_TempFileGoneAfterRequest ==
    \A r \in Requests :
        (Answered(r) /\ req[r].method = "POST" /\ ~NoFileSupplied(r))
            => req[r].temp_path \notin DOMAIN files

\* C2: a POST request with no file field, or an empty one, is answered 400,
\* and for that request no stage runs: the OCR engine and the LLM are never
\* invoked and no temporary file is created.
C2_NoFileIs400 ==
    \A r \in Requests :
        (req[r].method = "POST" /\ NoFileSupplied(r))
            => /\ Answered(r)
               /\ req[r].status = 400
               /\ req[r].log = <<>>
               /\ req[r].temp_path = NoPath
               /\ \A p \in DOMAIN files : files[p].owner # r

C2_Witness ==
    \E r \in Requests :
        /\ Answered(r)
        /\ req[r].method = "POST"
        /\ req[r].file.present
        /\ req[r].file.filename = ""
        /\ req[r].status = 400

\* C3: every input error of a POST request (a missing upload, an upload that
\* is unreadable or does not decode as an image) is answered with a 400-class
\* response, whereas an OCR engine failure or a completion that is not valid
\* JSON ends the request as a server error.
C3_InputErrorsAre400 ==
    \A r \in Requests :
        (Answered(r) /\ req[r].method = "POST")
            => /\ (NoFileSupplied(r) \/ req[r].error \in {"FileNotFoundError", "ValueError"})
                    => req[r].status \in 400..499
               /\ req[r].error \in {"OcrEngineError", "JSONDecodeError"}
                    => req[r].status = 500

\* C8: the temporary paths of the requests in flight are pairwise distinct,
\* and from its save to its cleanup a request's temporary file exists and
\* holds that request's own upload: no other request's save overwrote it and
\* no other request's cleanup removed it.
C8_TempPathsDistinct ==
    /\ \A r1, r2 \in Requests :
          (r1 # r2 /\ InFlight(r1) /\ InFlight(r2))
              => req[r1].temp_path # req[r2].temp_path
    /\ \A r \in Requests :
          req[r].pc \in {"load", "predict", "invoke", "parse", "score", "render", "finally"}
              => /\ req[r].temp_path \in DOMAIN files
                 /\ files[req[r].temp_path] =
                        [owner |-> r, decodable |-> req[r].file.decodable]

C8_Witness ==
    \E r1, r2 \in Requests :
        /\ r1 # r2
        /\ req[r1].pc = "predict"
        /\ req[r2].pc = "finally"
        /\ req[r1].file.filename = req[r2].file.filename

\* the stages of a POST request in the order of the code
Pipeline == <<"save", "load", "predict", "invoke", "parse", "score", "render">>

\* C9: within one POST request the stages run in the order write, load, OCR,
\* LLM, parse, (score,) render, with the delete last, each at most once; the
\* LLM is asked only after the OCR call has returned its text; and a request
\* that fails, at the OCR call or the JSON parse or anywhere else, is answered
\* with a server error and none of the three result sections.
C9_StagesInOrderNoRetry ==
    \A r \in Requests :
        LET log == req[r].log
            n == IF Has(log, "delete") THEN Len(log) - 1 ELSE Len(log)
        IN  /\ n <= Len(Pipeline)
            /\ \A i \in 1..n : log[i] = Pipeline[i]
            /\ \A i \in 1..Len(log) : log[i] = "delete" => i = Len(log)
            /\ req[r].pc = "invoke" => (req[r].text /\ Has(log, "predict"))
            /\ Has(log, "invoke") => Has(log, "predict")
            /\ (Answered(r) /\ req[r].error # None)
                    => (req[r].status = 500 /\ req[r].body \cap Sections = {})
            /\ (Answered(r) /\ req[r].method = "POST" /\ req[r].status = 200)
                    => (req[r].body = Sections /\ log = Append(Pipeline, "delete"))

C9_Witness ==
    \E r1, r2 \in Requests :
        /\ Answered(r1)
        /\ req[r1].error = "JSONDecodeError"
        /\ req[r1].log = <<"save", "load", "predict", "invoke", "parse", "delete">>
        /\ Answered(r2)
        /\ req[r2].error = "OcrEngineError"
        /\ req[r2].log = <<"save", "load", "predict", "delete">>

\* C10, as amended: when neither the process environment nor the .env file
\* that load_dotenv reads supplies GOOGLE_API_KEY, start-up fails at line 15,
\* before the OCR engine and the LLM client are constructed, and no request is
\* ever handled; a request is handled only by a process that has the key.
C10_NoKeyNoService ==
    /\ (environ = None /\ proc \notin {"load_dotenv", "set_key"})
          => (proc = "crashed" /\ handles = {} /\ \A r \in Requests : req[r].pc = "idle")
    /\ proc = "crashed" => environ = None
    /\ (\E r \in Requests : req[r].pc # "idle")
          => (environ # None /\ proc = "serving" /\ handles = {"ocr_extractor", "model"})

C10_Witness == proc = "crashed" /\ environ = None /\ dotenv = None

\* C10, as claimed: a process started without GOOGLE_API_KEY in its
\* environment fails during start-up, so the handles are constructed and
\* requests are handled only when the variable was in the environment at
\* process start.
C10_Original ==
    (proc \in {"init_ocr", "init_model", "serving"} \/ handles # {}
        \/ \E r \in Requests : req[r].pc # "idle")
        => environ = "key of the environment"

\* C4: for a path that does not exist extract_text fails with
\* FileNotFoundError, for an existing path that does not decode as an image it
\* fails with ValueError, and in both cases predict is never invoked.
C4_LoadFailuresSkipEngine ==
    /\ (ocr.path = "missing" /\ ocr.pc # "load")
          => (ocr.pc = "raised" /\ ocr.error = "FileNotFoundError" /\ ocr.predict_calls = 0)
    /\ (ocr.path = "corrupt" /\ ocr.pc # "load")
          => (ocr.pc = "raised" /\ ocr.error = "ValueError" /\ ocr.predict_calls = 0)
    /\ ocr.predict_calls > 0 => ocr.path = "image"

C4_Witness == ocr.pc = "raised" /\ ocr.path = "missing" /\ ocr.predict_calls = 0

\* the fragments of all pages in the order returned
AllTexts(results) == Concat([i \in 1..Len(results) |-> results[i].rec_texts])

\* a fragment with a character that is not white space
NonBlank(text) == \E i \in 1..Len(text) : text[i] \notin Whitespace

\* the fragments that are not blank, in the order returned
KeptTexts(results) == SelectSeq(AllTexts(results), NonBlank)

RECURSIVE StartOf(_, _)
\* where the i-th of the fragments begins in their single-space joining
StartOf(kept, i) == IF i = 1 THEN 1 ELSE StartOf(kept, i - 1) + Len(kept[i - 1]) + 1

\* out is the fragments of kept, each verbatim, in order, with exactly one
\* space between consecutive ones and nothing else
JoinedVerbatim(out, kept) ==
    /\ Len(kept) = 0 => out = <<>>
    /\ Len(kept) > 0
          => /\ Len(out) = StartOf(kept, Len(kept)) + Len(kept[Len(kept)]) - 1
             /\ \A i \in 1..Len(kept) :
                   /\ SubSeq(out, StartOf(kept, i), StartOf(kept, i) + Len(kept[i]) - 1)
                          = kept[i]
                   /\ i > 1 => out[StartOf(kept, i) - 1] = " "

\* one page holding "A", "", "B  ", "C"
ExamplePages == <<[rec_texts |-> << <<"A">>, <<>>, <<"B", " ", " ">>, <<"C">> >>]>>

\* C5, as amended: extract_text returns the fragments in the order returned
\* (page by page, then within each page), the empty and whitespace-only ones
\* dropped, every kept one verbatim, exactly one space between consecutive
\* kept fragments; joining "A", "", "B  ", "C" yields "A B   C" (the two
\* trailing spaces of "B  " are kept).
C5_JoinKeepsFragmentsVerbatim ==
    ocr.pc = "returned"
        => /\ JoinedVerbatim(ocr.full_text, KeptTexts(ocr.results))
           /\ ocr.results = ExamplePages
                 => ocr.full_text = <<"A", " ", "B", " ", " ", " ", "C">>

C5_Witness == ocr.pc = "returned" /\ ocr.results = ExamplePages

\* C5, as claimed: the same, but joining "A", "", "B  ", "C" yields "A B C".
C5_Original ==
    ocr.pc = "returned"
        => /\ JoinedVerbatim(ocr.full_text, KeptTexts(ocr.results))
           /\ ocr.results = ExamplePages
                 => ocr.full_text = <<"A", " ", "B", " ", "C">>

\* str.endswith(p)
EndsWith(s, p) == Len(s) >= Len(p) /\ SubSeq(s, Len(s) - Len(p) + 1, Len(s)) = p

\* the end of the leading fence marker with its optional "json" tag
LeadEnd(s) == IF StartsWith(s, Fence \o JsonTag) THEN Len(Fence) + Len(JsonTag) ELSE Len(Fence)

\* s is wrapped in a fenced code block
Wrapped(s) == StartsWith(s, Fence) /\ EndsWith(s, Fence) /\ Len(s) >= LeadEnd(s) + Len(Fence)

\* C6: post-processing trims the completion and, when it is wrapped in a
\* fenced code block, removes only the leading fence marker (with its optional
\* "json" tag) and the trailing one, so that the text between the two fences
\* reaches the parser unchanged (up to the trim); a completion that does not
\* start with a fence marker reaches the parser unchanged apart from the trim.
C6_OnlyOuterFencesRemoved ==
    llm.pc = "loads"
        => LET trimmed == Strip(llm.content)
           IN  /\ Wrapped(trimmed)
                     => llm.raw_output =
                            Strip(SubSeq(trimmed, LeadEnd(trimmed) + 1,
                                         Len(trimmed) - Len(Fence)))
               /\ ~StartsWith(trimmed, Fence) => llm.raw_output = trimmed

\* C7: every parsed object, whatever its number of top-level keys, is scored:
\* total_fields is the number of keys, null_fields the number of null values,
\* extracted_fields their difference, accuracy_percent the nearest hundredth
\* to 100 * extracted_fields / total_fields, between 0 and 100; 19 keys of
\* which 5 are null give 19, 5, 14 and 73.68.
C7_EveryObjectIsScored ==
    acc.pc = "scored"
        => LET t == Len(acc.passport_data)
               n == Cardinality({i \in 1..t : acc.passport_data[i] = None})
               m == acc.metrics
           IN  /\ acc.error = None
               /\ Len(m) = 4
               /\ m[1] = t
               /\ m[2] = n
               /\ m[3] = t - n
               /\ 2 * (m[4] * t - 10000 * (t - n)) <= t
               /\ 2 * (10000 * (t - n) - m[4] * t) <= t
               /\ m[4] \in 0..10000
               /\ (t = 19 /\ n = 5) => m = <<19, 5, 14, 7368>>

====
